---- MODULE Spec2Model ----
(***************************************************************************)
(* Forward kinematics of the four-joint planar arm of                      *)
(* robot3D_basic_solution.py: RotationMatrix, getLocalFrameMatrix and      *)
(* forward_kinematics.                                                     *)
(*                                                                         *)
(* Numbers.  Angles are integer degrees that are multiples of 90, for      *)
(* which cos and sin are the exact values 0, 1, -1.  Lengths are integers  *)
(* counted in tenths of a length unit, so that the paddings 0.8 and 0.4    *)
(* of the source are 8 and 4 and the base offset (3, 2, 0) is (30, 20, 0). *)
(* A matrix is the sequence of its rows; a 3x1 column is a 3-tuple.        *)
(* Python indexes Phi from 0, the model from 1: Phi[k] is Phi[k+1] here.   *)
(***************************************************************************)
EXTENDS Integers, Sequences, FiniteSets

VARIABLES fn, args, pc, ret, args2, ret2

vars == <<fn, args, pc, ret, args2, ret2>>

\* ---------------------------------------------------------------- bounds
\* RotationMatrix is called with theta in -90*MaxQuarter .. 90*MaxQuarter
MaxQuarter == 5
\* each joint angle of Phi is in -90 .. 90*MaxPhiQuarter
MaxPhiQuarter == 2
\* link lengths L1..L4 are 1..MaxLen tenths
MaxLen == 2
\* components of the translation handed to getLocalFrameMatrix
MaxCoord == 1

\* number of joint angles forward_kinematics reads (Phi[0] .. Phi[3])
NumJoints == 4

\* ------------------------------------------------------- linear algebra
Dot(u, v, n) == LET RECURSIVE S(_)
                    S(k) == IF k = 0 THEN 0 ELSE S(k - 1) + u[k] * v[k]
                IN  S(n)

Col(M, j) == [i \in 1..Len(M) |-> M[i][j]]

\* numpy's A @ B for two square matrices of the same size
MatMul(A, B) == [i \in 1..Len(A) |-> [j \in 1..Len(A) |-> Dot(A[i], Col(B, j), Len(A))]]

\* numpy's A @ v for a matrix and a column
MatVec(A, v) == [i \in 1..Len(A) |-> Dot(A[i], v, Len(A))]

Transpose(M) == [i \in 1..Len(M) |-> Col(M, i)]

I3 == <<<<1, 0, 0>>, <<0, 1, 0>>, <<0, 0, 1>>>>

I4 == <<<<1, 0, 0, 0>>, <<0, 1, 0, 0>>, <<0, 0, 1, 0>>, <<0, 0, 0, 1>>>>

Det3(M) ==   M[1][1] * (M[2][2] * M[3][3] - M[2][3] * M[3][2])
           - M[1][2] * (M[2][1] * M[3][3] - M[2][3] * M[3][1])
           + M[1][3] * (M[2][1] * M[3][2] - M[2][2] * M[3][1])

\* top-left 3x3 block of a 4x4 matrix
Block3(T) == [i \in 1..3 |-> [j \in 1..3 |-> T[i][j]]]

\* ------------------------------------------------------- RotationMatrix
\* theta * pi / 180 for a multiple of 90 degrees, as a number of quarter
\* turns reduced to 0..3 (cos and sin have period 2*pi)
QuarterTurns(theta) == (theta \div 90) % 4

\* c = np.cos(theta * np.pi / 180)
CosDeg(theta) == CASE QuarterTurns(theta) = 0 -> 1
                   [] QuarterTurns(theta) = 1 -> 0
                   [] QuarterTurns(theta) = 2 -> -1
                   [] QuarterTurns(theta) = 3 -> 0

\* s = np.sin(theta * np.pi / 180)
SinDeg(theta) == CASE QuarterTurns(theta) = 0 -> 0
                   [] QuarterTurns(theta) = 1 -> 1
                   [] QuarterTurns(theta) = 2 -> 0
                   [] QuarterTurns(theta) = 3 -> -1

Returned(v) == [exc |-> "none", val |-> v]

Raised(e) == [exc |-> e, val |-> <<>>]

\* the local rotation_matrix before any branch has assigned it
Unbound == Raised("UnboundLocalError")

\* a plausible slip: the chain is closed by an else that handles "anything
\* else" as the identity, which also overwrites the 'x' result
RotationMatrixElse(theta, axis_name) ==
    LET c == CosDeg(theta)
        s == SinDeg(theta)
        afterX == IF axis_name = "x"
                  THEN Returned(<<<<1, 0, 0>>, <<0, c, -s>>, <<0, s, c>>>>)
                  ELSE Unbound
    IN  IF axis_name = "y"
        THEN Returned(<<<<c, 0, s>>, <<0, 1, 0>>, <<-s, 0, c>>>>)
        ELSE IF axis_name = "z"
             THEN Returned(<<<<c, -s, 0>>, <<s, c, 0>>, <<0, 0, 1>>>>)
             ELSE Returned(I3)

\* a plausible slip: the sign of s in the 'y' branch is lost
RotationMatrixSign(theta, axis_name) ==
    LET c == CosDeg(theta)
        s == SinDeg(theta)
        afterX == IF axis_name = "x"
                  THEN Returned(<<<<1, 0, 0>>, <<0, c, -s>>, <<0, s, c>>>>)
                  ELSE Unbound
    IN  IF axis_name = "y"
        THEN Returned(<<<<c, 0, s>>, <<0, 1, 0>>, <<s, 0, c>>>>)
        ELSE IF axis_name = "z"
             THEN Returned(<<<<c, -s, 0>>, <<s, c, 0>>, <<0, 0, 1>>>>)
             ELSE afterX

\* a plausible slip: the second chain ends in else instead of elif 'z', so
\* that the 'x' result is overwritten by the z rotation
RotationMatrixOverwrite(theta, axis_name) ==
    LET c == CosDeg(theta)
        s == SinDeg(theta)
    IN  IF axis_name = "y"
        THEN Returned(<<<<c, 0, s>>, <<0, 1, 0>>, <<-s, 0, c>>>>)
        ELSE Returned(<<<<c, -s, 0>>, <<s, c, 0>>, <<0, 0, 1>>>>)

\* The 'x' test is an if of its own; 'y' and 'z' form a second if/elif
\* without else.  The function ends with "return rotation_matrix", which
\* raises UnboundLocalError when no branch has assigned the local.
RotationMatrix(theta, axis_name) ==
    LET c == CosDeg(theta)
        s == SinDeg(theta)
        afterX == IF axis_name = "x"
                  THEN Returned(<<<<1, 0, 0>>, <<0, c, -s>>, <<0, s, c>>>>)
                  ELSE Unbound
    IN  IF axis_name = "y"
        THEN Returned(<<<<c, 0, s>>, <<0, 1, 0>>, <<-s, 0, c>>>>)
        ELSE IF axis_name = "z"
             THEN Returned(<<<<c, -s, 0>>, <<s, c, 0>>, <<0, 0, 1>>>>)
             ELSE afterX

\* -------------------------------------------------- getLocalFrameMatrix
\* a plausible slip: the bottom-right entry of the block matrix is 0
getLocalFrameMatrixZero(R_ij, t_ij) ==
    [i \in 1..4 |-> IF i <= 3 THEN Append(R_ij[i], t_ij[i]) ELSE <<0, 0, 0, 0>>]

\* np.block([[R_ij, t_ij], [np.zeros((1, 3)), 1]])
getLocalFrameMatrix(R_ij, t_ij) ==
    [i \in 1..4 |-> IF i <= 3 THEN Append(R_ij[i], t_ij[i]) ELSE <<0, 0, 0, 1>>]

\* --------------------------------------------------- forward_kinematics
\* a plausible slip: a missing joint angle is read as 0 instead of raising
GetitemDefault(Phi, k) ==
    IF k + 1 <= Len(Phi) THEN Returned(Phi[k + 1]) ELSE Returned(0)

\* the expression Phi[k], k >= 0: IndexError when Phi has no index k
Getitem(Phi, k) ==
    IF k + 1 <= Len(Phi) THEN Returned(Phi[k + 1]) ELSE Raised("IndexError")

\* p1, the origin of frame 1 in the world frame: (3, 2, 0.0)
p1 == <<30, 20, 0>>

\* T_01 = getLocalFrameMatrix(RotationMatrix(Phi[0], 'z'), p1)
T_01(a) ==
    getLocalFrameMatrix(RotationMatrix(Getitem(a.Phi, 0).val, "z").val, p1)

\* a plausible slip: joint 2 turns about x instead of z
T_12AxisX(a) ==
    getLocalFrameMatrix(RotationMatrix(Getitem(a.Phi, 1).val, "x").val,
                        <<a.L1 + 8, 0, 0>>)

\* T_12 = getLocalFrameMatrix(RotationMatrix(Phi[1], 'z'), (L1 + 0.8, 0, 0))
T_12(a) ==
    getLocalFrameMatrix(RotationMatrix(Getitem(a.Phi, 1).val, "z").val,
                        <<a.L1 + 8, 0, 0>>)

\* T_23 = getLocalFrameMatrix(RotationMatrix(Phi[2], 'z'), (L2 + 0.8, 0, 0))
T_23(a) ==
    getLocalFrameMatrix(RotationMatrix(Getitem(a.Phi, 2).val, "z").val,
                        <<a.L2 + 8, 0, 0>>)

\* a plausible slip: the last offset is taken from L4 instead of L3
T_34FromL4(a) ==
    getLocalFrameMatrix(RotationMatrix(Getitem(a.Phi, 3).val, "z").val,
                        <<a.L4 + 4, 0, 0>>)

\* T_34 = getLocalFrameMatrix(RotationMatrix(Phi[3], 'z'), (L3 + 0.4, 0, 0))
T_34(a) ==
    getLocalFrameMatrix(RotationMatrix(Getitem(a.Phi, 3).val, "z").val,
                        <<a.L3 + 4, 0, 0>>)

\* T_02 = T_01 @ T_12
T_02(a) == MatMul(T_01(a), T_12(a))

\* a plausible slip: the product for frame 3 leaves out T_12
T_03Skip(a) == MatMul(T_01(a), T_23(a))

\* T_03 = T_01 @ T_12 @ T_23   (@ associates to the left)
T_03(a) == MatMul(MatMul(T_01(a), T_12(a)), T_23(a))

\* a plausible slip: the chain is multiplied tip-to-base
T_04Reversed(a) == MatMul(MatMul(MatMul(T_34(a), T_23(a)), T_12(a)), T_01(a))

\* T_04 = T_01 @ T_12 @ T_23 @ T_34
T_04(a) == MatMul(MatMul(MatMul(T_01(a), T_12(a)), T_23(a)), T_34(a))

\* a plausible slip: the slice keeps the last three components
EndEffectorSlice(T) == SubSeq(MatVec(T, <<0, 0, 0, 1>>), 2, 4)

\* e = (T_04 @ np.array([[0], [0], [0], [1]]))[:3].flatten()
EndEffector(T) == SubSeq(MatVec(T, <<0, 0, 0, 1>>), 1, 3)

\* The function reads Phi[0], Phi[1], Phi[2], Phi[3] in this order; the
\* first missing one raises IndexError and nothing is returned.  Otherwise
\* it returns the tuple (T_01, T_02, T_03, T_04, e).
forward_kinematics(Phi, L1, L2, L3, L4) ==
    LET a == [Phi |-> Phi, L1 |-> L1, L2 |-> L2, L3 |-> L3, L4 |-> L4]
    IN  IF \E k \in 0..(NumJoints - 1) : Getitem(Phi, k).exc # "none"
        THEN Raised("IndexError")
        ELSE Returned(<<T_01(a), T_02(a), T_03(a), T_04(a), EndEffector(T_04(a))>>)

\* ----------------------------------------------------------- the calls
ValidAxes == {"x", "y", "z"}

\* axis tags a caller can pass: the three valid ones and some others
AxisTags == ValidAxes \cup {"w", "X", ""}

RotAngles == {90 * k : k \in (-MaxQuarter)..MaxQuarter}

PhiAngles == {90 * k : k \in (-1)..MaxPhiQuarter}

Lens == 1..MaxLen

\* joint-angle vectors of every length up to NumJoints, the empty one included
PhiVectors == UNION {[1..n -> PhiAngles] : n \in 0..NumJoints}

\* rotations handed to getLocalFrameMatrix, and two matrices that are not
\* rotations (the function does not validate R_ij)
FrameRotations ==
    {RotationMatrix(th, ax).val : th \in {0, 90, 180, 270}, ax \in ValidAxes}
    \cup {<<<<0, 0, 0>>, <<0, 0, 0>>, <<0, 0, 0>>>>,
          <<<<2, 0, 0>>, <<0, 1, 0>>, <<0, 0, 1>>>>}

Translations == [1..3 -> (-MaxCoord)..MaxCoord]

RotationMatrixArgs == [theta : RotAngles, axis_name : AxisTags]

getLocalFrameMatrixArgs == [R_ij : FrameRotations, t_ij : Translations]

forward_kinematicsArgs == [Phi : PhiVectors, L1 : Lens, L2 : Lens, L3 : Lens, L4 : Lens]

NoCall == [exc |-> "nocall", val |-> <<>>]

Outcome(r) == IF r.exc = "none" THEN "returned" ELSE "raised"

Init ==
    /\ \/ fn = "RotationMatrix" /\ args \in RotationMatrixArgs
       \/ fn = "getLocalFrameMatrix" /\ args \in getLocalFrameMatrixArgs
       \/ fn = "forward_kinematics" /\ args \in forward_kinematicsArgs
    /\ pc = "call"
    /\ ret = NoCall
    /\ args2 = args
    /\ ret2 = NoCall

CallRotationMatrix ==
    /\ fn = "RotationMatrix" /\ pc = "call"
    /\ ret' = RotationMatrix(args.theta, args.axis_name)
    /\ pc' = Outcome(ret')
    /\ UNCHANGED <<fn, args, args2, ret2>>

CallGetLocalFrameMatrix ==
    /\ fn = "getLocalFrameMatrix" /\ pc = "call"
    /\ ret' = Returned(getLocalFrameMatrix(args.R_ij, args.t_ij))
    /\ pc' = "returned"
    /\ UNCHANGED <<fn, args, args2, ret2>>

CallForwardKinematics ==
    /\ fn = "forward_kinematics" /\ pc = "call"
    /\ ret' = forward_kinematics(args.Phi, args.L1, args.L2, args.L3, args.L4)
    /\ pc' = Outcome(ret')
    /\ UNCHANGED <<fn, args, args2, ret2>>

\* a second call with the same Phi, L1, L2, L3 and another L4
CallForwardKinematicsAgain ==
    /\ fn = "forward_kinematics" /\ pc \in {"returned", "raised"}
    /\ ret2 = NoCall
    /\ \E l4 \in Lens \ {args.L4} :
          /\ args2' = [args EXCEPT !.L4 = l4]
          /\ ret2' = forward_kinematics(args.Phi, args.L1, args.L2, args.L3, l4)
    /\ UNCHANGED <<fn, args, pc, ret>>

Next ==
    \/ CallRotationMatrix
    \/ CallGetLocalFrameMatrix
    \/ CallForwardKinematics
    \/ CallForwardKinematicsAgain

Spec == Init /\ [][Next]_vars

\* ------------------------------------------------------------ the claims
IsFK == fn = "forward_kinematics"

IsRot == fn = "RotationMatrix"

IsFrame == fn = "getLocalFrameMatrix"

Origin4 == <<0, 0, 0, 1>>

\* the translation column of a 4x4 transform
TransCol(T) == <<T[1][4], T[2][4], T[3][4]>>

\* R R^T = I and det R = 1
IsRotation(R) == MatMul(R, Transpose(R)) = I3 /\ Det3(R) = 1

\* the z rotation by theta degrees, written out
Rz(theta) == <<<<CosDeg(theta), -SinDeg(theta), 0>>,
               <<SinDeg(theta), CosDeg(theta), 0>>,
               <<0, 0, 1>>>>

\* offset_i of the chain: (3,2,0), (L1+0.8,0,0), (L2+0.8,0,0), (L3+0.4,0,0)
JointOffset(a, i) == CASE i = 1 -> <<30, 20, 0>>
                       [] i = 2 -> <<a.L1 + 8, 0, 0>>
                       [] i = 3 -> <<a.L2 + 8, 0, 0>>
                       [] i = 4 -> <<a.L3 + 4, 0, 0>>

\* T_local[i] = frame(rotation(Phi[i-1], z), offset_i)
LocalTransform(a, i) ==
    LET R == Rz(a.Phi[i])
        t == JointOffset(a, i)
    IN  <<Append(R[1], t[1]), Append(R[2], t[2]), Append(R[3], t[3]), <<0, 0, 0, 1>>>>

\* the product of the local transforms taken in the order of the index
\* sequence idx, starting from the identity
ChainProduct(a, idx) ==
    LET RECURSIVE P(_)
        P(k) == IF k = 0 THEN I4 ELSE MatMul(P(k - 1), LocalTransform(a, idx[k]))
    IN  P(Len(idx))

\* C1: every cumulative transform returned by forward_kinematics is the
\* previous one right-multiplied by the next local transform, starting from
\* the identity, and T_04 is the base-to-tip product of the four local ones.
ThmC1 ==
    (IsFK /\ pc = "returned") =>
        /\ ret.val[1] = MatMul(I4, LocalTransform(args, 1))
        /\ \A i \in 2..4 : ret.val[i] = MatMul(ret.val[i - 1], LocalTransform(args, i))
        /\ ret.val[4] = ChainProduct(args, <<1, 2, 3, 4>>)

WitC1 ==
    /\ IsFK /\ pc = "returned"
    /\ args.Phi = <<90, -90, 180, 90>>
    /\ ret.val[4] = ChainProduct(args, <<1, 2, 3, 4>>)
    /\ ret.val[4] # ChainProduct(args, <<4, 3, 2, 1>>)

\* C2: the returned e is the first three components of T_04 applied to
\* [0,0,0,1], that is the translation column of T_04, and the fourth
\* component of that product is 1.
ThmC2 ==
    (IsFK /\ pc = "returned") =>
        LET h == MatVec(ret.val[4], Origin4)
        IN  /\ ret.val[5] = <<h[1], h[2], h[3]>>
            /\ ret.val[5] = TransCol(ret.val[4])
            /\ h[4] = 1

WitC2 ==
    /\ IsFK /\ pc = "returned"
    /\ args.Phi = <<90, 90, 0, 0>>
    /\ ret.val[5] = <<30 - (args.L2 + 8) - (args.L3 + 4), 20 + args.L1 + 8, 0>>

\* C3 as claimed: RotationMatrix with an axis tag outside {x, y, z} signals
\* the error InvalidAxis and returns no matrix.
CexC3 ==
    (IsRot /\ pc # "call" /\ args.axis_name \notin ValidAxes) =>
        (pc = "raised" /\ ret.exc = "InvalidAxis")

\* C3 as amended: RotationMatrix with an axis tag outside {x, y, z} raises
\* UnboundLocalError (no branch assigns rotation_matrix); it returns no
\* matrix and the call does not complete normally.
ThmC3 ==
    (IsRot /\ pc # "call" /\ args.axis_name \notin ValidAxes) =>
        (pc = "raised" /\ ret.exc = "UnboundLocalError" /\ ret.val = <<>>)

WitC3 ==
    /\ IsRot /\ pc = "raised"
    /\ args.axis_name = "w" /\ args.theta = 90
    /\ ret.exc = "UnboundLocalError"

\* C4: for every axis in {x, y, z} and every angle, RotationMatrix returns
\* an orthonormal matrix of determinant 1.
ThmC4 ==
    (IsRot /\ pc # "call" /\ args.axis_name \in ValidAxes) =>
        (pc = "returned" /\ IsRotation(ret.val))

WitC4 ==
    /\ IsRot /\ pc = "returned"
    /\ args.axis_name = "y" /\ args.theta = -450
    /\ ret.val # I3
    /\ IsRotation(ret.val)

\* C5: for each axis tag, RotationMatrix returns the right-handed elementary
\* rotation about that axis: the axis is fixed and the other two basis
\* vectors turn in their plane (x: y to z, y: z to x, z: x to y); the 'x'
\* result survives the later y/z tests.
ThmC5 ==
    (IsRot /\ pc # "call" /\ args.axis_name \in ValidAxes) =>
        LET c == CosDeg(args.theta)
            s == SinDeg(args.theta)
            R == ret.val
        IN  /\ pc = "returned"
            /\ args.axis_name = "x" =>
                  /\ MatVec(R, <<1, 0, 0>>) = <<1, 0, 0>>
                  /\ MatVec(R, <<0, 1, 0>>) = <<0, c, s>>
                  /\ MatVec(R, <<0, 0, 1>>) = <<0, -s, c>>
            /\ args.axis_name = "y" =>
                  /\ MatVec(R, <<0, 1, 0>>) = <<0, 1, 0>>
                  /\ MatVec(R, <<0, 0, 1>>) = <<s, 0, c>>
                  /\ MatVec(R, <<1, 0, 0>>) = <<c, 0, -s>>
            /\ args.axis_name = "z" =>
                  /\ MatVec(R, <<0, 0, 1>>) = <<0, 0, 1>>
                  /\ MatVec(R, <<1, 0, 0>>) = <<c, s, 0>>
                  /\ MatVec(R, <<0, 1, 0>>) = <<-s, c, 0>>

WitC5 ==
    /\ IsRot /\ pc = "returned"
    /\ args.axis_name = "x" /\ args.theta = 90
    /\ MatVec(ret.val, <<0, 1, 0>>) = <<0, 0, 1>>

\* C6: getLocalFrameMatrix(R, t) has top-left block R, right column t and
\* bottom row [0,0,0,1] (so it sends the homogeneous origin to [t,1]), and
\* every cumulative pose returned by forward_kinematics has bottom row
\* [0,0,0,1] and a top-left block that is orthonormal of determinant 1.
ThmC6 ==
    /\ (IsFrame /\ pc = "returned") =>
          /\ Block3(ret.val) = args.R_ij
          /\ TransCol(ret.val) = args.t_ij
          /\ ret.val[4] = <<0, 0, 0, 1>>
          /\ MatVec(ret.val, Origin4) = Append(args.t_ij, 1)
    /\ (IsFK /\ pc = "returned") =>
          \A i \in 1..4 : /\ ret.val[i][4] = <<0, 0, 0, 1>>
                          /\ IsRotation(Block3(ret.val[i]))

WitC6 ==
    /\ IsFK /\ pc = "returned"
    /\ args.Phi = <<90, 90, 90, -90>>
    /\ Block3(ret.val[3]) # I3
    /\ \A i \in 1..4 : ret.val[i][4] = <<0, 0, 0, 1>>

\* C7 as claimed: with an empty joint-angle vector the call succeeds, the
\* pose sequence is empty and the end-effector is the world origin.
CexC7 ==
    (IsFK /\ pc # "call" /\ args.Phi = <<>>) =>
        /\ pc = "returned"
        /\ Len(ret.val) = 1
        /\ ret.val[1] = <<0, 0, 0>>

\* C7 as amended: with an empty joint-angle vector forward_kinematics raises
\* IndexError (at Phi[0]) and returns neither poses nor an end-effector.
ThmC7 ==
    (IsFK /\ pc # "call" /\ args.Phi = <<>>) =>
        (pc = "raised" /\ ret.exc = "IndexError" /\ ret.val = <<>>)

WitC7 ==
    /\ IsFK /\ pc = "raised"
    /\ args.Phi = <<>>
    /\ ret.exc = "IndexError"

\* the i-th angle is not a zero rotation
Turns(a, i) == a.Phi[i] % 360 # 0

Cross2(u, v) == u[1] * v[2] - u[2] * v[1]

\* the four joint offsets are not all on one line through the origin
NonCollinear(a) ==
    \E i, j \in 1..4 : Cross2(JointOffset(a, i), JointOffset(a, j)) # 0

\* the end-effector of the chain composed in reversed order
ReversedEnd(a) == TransCol(ChainProduct(a, <<4, 3, 2, 1>>))

\* C8 as claimed: whenever some joint angle is not a zero rotation and the
\* offsets are not all collinear, the reversed chain order gives another
\* end-effector position than the one returned.
CexC8 ==
    (IsFK /\ pc = "returned" /\ NonCollinear(args) /\ \E i \in 1..4 : Turns(args, i)) =>
        ReversedEnd(args) # ret.val[5]

\* C8 as amended: whenever exactly one joint angle is not a zero rotation
\* (link lengths positive), the reversed chain order gives another
\* end-effector position than the one returned.
ThmC8 ==
    (IsFK /\ pc = "returned" /\ Cardinality({i \in 1..4 : Turns(args, i)}) = 1) =>
        ReversedEnd(args) # ret.val[5]

WitC8 ==
    /\ IsFK /\ pc = "returned"
    /\ args.Phi = <<0, 0, 180, 0>>
    /\ ReversedEnd(args) # ret.val[5]

\* sum of the first i joint angles
PhiSum(a, i) ==
    LET RECURSIVE S(_)
        S(k) == IF k = 0 THEN 0 ELSE S(k - 1) + a.Phi[k]
    IN  S(i)

\* C9: the arm is planar: the z coordinate of e is 0 and the rotation block
\* of each cumulative pose T_0i is the z rotation by Phi[0]+...+Phi[i-1].
ThmC9 ==
    (IsFK /\ pc = "returned") =>
        /\ ret.val[5][3] = 0
        /\ \A i \in 1..4 : Block3(ret.val[i]) = Rz(PhiSum(args, i))

WitC9 ==
    /\ IsFK /\ pc = "returned"
    /\ args.Phi = <<180, 180, 90, -90>>
    /\ Block3(ret.val[2]) = I3
    /\ Block3(ret.val[3]) = Rz(90)

\* the offset of frame i in its parent frame, read back from the results
ReadOffset(r, i) ==
    IF i = 1 THEN TransCol(r[1])
    ELSE LET d == [k \in 1..3 |-> TransCol(r[i])[k] - TransCol(r[i - 1])[k]]
         IN  MatVec(Transpose(Block3(r[i - 1])), d)

\* C10: two calls that agree on Phi, L1, L2, L3 and differ in L4 give the
\* same five results (or fail alike), and the joint offsets are (3,2,0),
\* (L1+0.8,0,0), (L2+0.8,0,0), (L3+0.4,0,0).
ThmC10 ==
    (IsFK /\ ret2.exc # "nocall") =>
        /\ args2.L4 # args.L4
        /\ ret2 = ret
        /\ pc = "returned" =>
              \A i \in 1..4 : ReadOffset(ret.val, i) = JointOffset(args, i)

WitC10 ==
    /\ IsFK /\ pc = "returned" /\ ret2.exc = "none"
    /\ args.L4 = 1 /\ args2.L4 = 2 /\ args.L3 = 2
    /\ args.Phi = <<90, 0, -90, 180>>
    /\ ret2.val[5] = ret.val[5]

====
